---- MODULE Spec2Model ----
(***************************************************************************)
(* Model of the artist resolution engine of genderify                      *)
(* (src/genderify/gender_finder.py, class Genderifier).                     *)
(*                                                                         *)
(* The Genderifier is modelled as a sequential machine with an explicit    *)
(* control stack of activation frames (cs): genderise_batch calls          *)
(* genderise, genderise calls _genderise_from_source, which may expand a   *)
(* group and call genderise again for every member.  Every page fetch,     *)
(* store write and delete draws its outcome from a small set of inputs.    *)
(***************************************************************************)
EXTENDS Integers, Sequences, FiniteSets, TLC

\* ------------------------------------------------------------------------
\* Bounds of the model
\* ------------------------------------------------------------------------
MaxMembers == 2      \* longest member list a group page carries
MaxCalls == 1        \* top-level operations started per behaviour
MaxFaults == 1       \* store writes and deletes that fail per behaviour
MaxTime == 1         \* last value of the one-second database clock
MaxOffset == 1       \* largest explicit --offset handed to a batch fetch
MaxRestarts == 1     \* process restarts on the same database file
MaxTracks == 2       \* tracks of a playlist
MaxCredits == 2      \* artists credited on one track

\* ------------------------------------------------------------------------
\* Values
\* ------------------------------------------------------------------------
None == "None"                       \* Python's None
Names == {"A", "G"}                  \* artist names seen on pages
NoUrl == <<>>                        \* an Artist url field holding None
NoContext == <<"None">>              \* a context field holding None

\* Artist = namedtuple('Artist', ['name','spotify_id','wiki_url','lastfm_url'])
Artist(name, spotify_id, wiki_url, lastfm_url) ==
    [name |-> name, spotify_id |-> spotify_id,
     wiki_url |-> wiki_url, lastfm_url |-> lastfm_url]

\* MemberResults = namedtuple(... ['nonbinary','female','male','unknown','names'])
MemberResults(nonbinary, female, male, unknown, names) ==
    [nonbinary |-> nonbinary, female |-> female, male |-> male,
     unknown |-> unknown, names |-> names]

\* DBRow = namedtuple(... ['artist','context','gender','is_group','lead','members'])
DBRow(artist, context, gender, is_group, lead, members) ==
    [artist |-> artist, context |-> context, gender |-> gender,
     is_group |-> is_group, lead |-> lead, members |-> members]

\* get_artist_obj_from_name
get_artist_obj_from_name(name) == Artist(name, None, NoUrl, NoUrl)

\* ------------------------------------------------------------------------
\* Pronoun classifier (_get_gender_and_context).  A text is a sequence of
\* one-character strings.
\* ------------------------------------------------------------------------
\* as Pronouns, with the article 'the' among them
PronounsAndArticle ==
    { <<"h","i","s">>, <<"h","e","r">>, <<"t","h","e","i","r">>,
      <<"h","e">>, <<"s","h","e">>, <<"t","h","e","y">>,
      <<"t","h","e","m">>, <<"h","i","m">>, <<"t","h","e">> }

Pronouns == { <<"h","i","s">>, <<"h","e","r">>, <<"t","h","e","i","r">>,
              <<"h","e">>, <<"s","h","e">>, <<"t","h","e","y">>,
              <<"t","h","e","m">>, <<"h","i","m">> }

\* as PRONOUN_MAP, but 'her' is looked up as a possessive of any gender
PRONOUN_MAP_HerUnknown(word) ==
    CASE word \in { <<"t","h","e","i","r">>, <<"t","h","e","y">>,
                    <<"t","h","e","m">> } -> "nonbinary"
      [] word \in { <<"s","h","e">> } -> "female"
      [] word \in { <<"h","i","s">>, <<"h","i","m">>, <<"h","e">> } -> "male"
      [] OTHER -> None

PRONOUN_MAP(word) ==
    CASE word \in { <<"t","h","e","i","r">>, <<"t","h","e","y">>,
                    <<"t","h","e","m">> } -> "nonbinary"
      [] word \in { <<"h","e","r">>, <<"s","h","e">> } -> "female"
      [] word \in { <<"h","i","s">>, <<"h","i","m">>, <<"h","e">> } -> "male"
      [] OTHER -> None

Lower(c) == CASE c = "H" -> "h" [] c = "S" -> "s" [] c = "E" -> "e"
              [] OTHER -> c
\* \w of the re module: letters, digits and the underscore
WordChars == {"h","e","s","i","r","t","y","m","x","H","S","E","_","1"}
Whitespace == {" ", "\n", "\t"}

RECURSIVE SplitOn(_, _)
\* str.split(sep): the pieces between successive occurrences of sep
SplitOn(text, sep) ==
    IF \A i \in 1..Len(text) : text[i] # sep THEN <<text>>
    ELSE LET p == CHOOSE i \in 1..Len(text) :
                      text[i] = sep /\ \A j \in 1..(i - 1) : text[j] # sep
         IN <<SubSeq(text, 1, p - 1)>>
                \o SplitOn(SubSeq(text, p + 1, Len(text)), sep)

\* word.lower() followed by re.sub(r'[^\w]', '', word)
CleanWord(word) ==
    LET low == [i \in 1..Len(word) |-> Lower(word[i])]
    IN SelectSeq(low, LAMBDA c : c \in WordChars)

\* words[a:b] of Python for 0-based a (possibly negative) and b >= 0
PySlice(words, a, b) ==
    LET n == Len(words)
        lo == IF a < 0 THEN (IF a + n < 0 THEN 0 ELSE a + n) ELSE
              (IF a > n THEN n ELSE a)
        hi == IF b > n THEN n ELSE b
    IN IF lo >= hi THEN <<>> ELSE SubSeq(words, lo + 1, hi)

RECURSIVE JoinWith(_, _)
\* sep.join(words)
JoinWith(words, sep) ==
    IF words = <<>> THEN <<>>
    ELSE IF Len(words) = 1 THEN words[1]
    ELSE words[1] \o <<sep>> \o JoinWith(Tail(words), sep)

\* _get_gender_and_context(corpus) -> [gender, context]
get_gender_and_context(corpus) ==
    LET words == SplitOn(corpus, " ")
        hits == {i \in 1..Len(words) : CleanWord(words[i]) \in Pronouns}
    IN IF hits = {} THEN [gender |-> None, context |-> NoContext]
       ELSE LET p == CHOOSE i \in hits : \A j \in hits : i <= j
                ix == p - 1
            IN [gender |-> PRONOUN_MAP(CleanWord(words[p])),
                context |-> JoinWith(PySlice(words, ix - 5, ix + 5), " ")]

\* as IsBlank, but only the empty text counts
IsBlankOnlyEmpty(corpus) == corpus = <<>>

\* corpus.strip() is empty: only whitespace characters
IsBlank(corpus) == \A i \in 1..Len(corpus) : corpus[i] \in Whitespace

\* ------------------------------------------------------------------------
\* Pages.  A page is described by the features the code looks at.
\* ------------------------------------------------------------------------
BioEmpty == <<>>
BioBlank == <<" ">>
BioShe == <<"S","h","e">>
BioHe == <<"x"," ","h","e",".">>
BioThey == <<"t","h","e","y">>
BioNoPronoun == <<"x">>

\* Prose for the classifier, built from tokens separated by single spaces:
\* up to MaxBefore filler tokens, one pronoun token as it is written in the
\* text, up to MaxAfter filler tokens and possibly one more pronoun token;
\* and prose with no pronoun at all.  Neighbouring fillers differ.
MaxBefore == 6
MaxAfter == 5
Fillers == << <<"x">>, <<"1">>, <<"_", "x">> >>
FillerRun(from, n) == [j \in 1..n |-> Fillers[((from + j) % 3) + 1]]
WrittenPronouns ==
    { <<"S","h","e">>, <<"h","e",".">>, <<"H","e","r">>, <<"h","i","s">>,
      <<"h","i","m">>, <<"t","h","e","y">>, <<"t","h","e","m">>,
      <<"t","h","e","i","r">> }
NearPronouns == { <<"t","h","e">>, <<"h","e","r","s">>, <<"s","h","y">> }
LaterPronouns == {<<>>, << <<"h","e">> >>}
PronounTexts ==
    {FillerRun(0, k) \o << <<"S","h","e">> >> \o FillerRun(k + 1, m) \o tail :
        k \in 0..MaxBefore, m \in 0..MaxAfter, tail \in LaterPronouns}
    \cup
    {FillerRun(0, k) \o <<p>> \o FillerRun(k + 1, m) \o tail :
        k \in 0..1, p \in WrittenPronouns, m \in 0..1, tail \in LaterPronouns}
PlainTexts ==
    {FillerRun(0, k) \o <<q>> \o FillerRun(k + 1, m) :
        k \in 0..MaxBefore, q \in NearPronouns, m \in 0..1}
TokenLists == PronounTexts \cup PlainTexts
Corpora == {JoinWith(ts, " ") : ts \in TokenLists}

\* Prose as p.get_text() hands it on, with the line breaks and tabs of the
\* page: one pronoun with at most one token before and after it, the tokens
\* separated by a space, a newline or a tab
BrokenTexts ==
    {FillerRun(0, k) \o <<p>> \o FillerRun(k + 1, m) :
        k \in 0..1, p \in WrittenPronouns, m \in 0..1}
BrokenCorpora == {JoinWith(ts, sep) : ts \in BrokenTexts, sep \in Whitespace}

\* all sequences over S of length at most n
RECURSIVE SeqsUpTo(_, _)
SeqsUpTo(S, n) ==
    IF n = 0 THEN {<<>>}
    ELSE LET shorter == SeqsUpTo(S, n - 1)
         IN shorter \cup {Append(s, x) : s \in {t \in shorter : Len(t) = n - 1}, x \in S}

MemberNameLists == SeqsUpTo(Names, MaxMembers)

WikiUrl(name) == <<"wiki", name>>        \* https://en.wikipedia.org/wiki/<name>
WikiLinkUrl(name) == <<"wiki", name, "href">>   \* url of an in-page link
LastfmUrl(name) == <<"lastfm", name>>    \* https://www.last.fm/music/<name>/+wiki
LastfmLinkUrl(name) == <<"lastfm", name, "href">>

\* A wikipedia page: redirected ("Redirected from <name>" in the text),
\* disamb ("<name> may refer to:"), bands (links whose text contains 'band'),
\* artist (infobox has Genres, Labels or Instruments), group (infobox has
\* Members), members (names of the Members cell), linked (the members carry
\* links), bio (text of the paragraphs), pointer ("For other uses, see <name>"
\* with a "<name> (disambiguation)" link).
WikiPage(redirected, disamb, bands, artist, group, members, linked, bio, pointer) ==
    [redirected |-> redirected, disamb |-> disamb, bands |-> bands,
     artist |-> artist, group |-> group, members |-> members,
     linked |-> linked, bio |-> bio, pointer |-> pointer]

WikiPlain == WikiPage(FALSE, FALSE, 0, FALSE, FALSE, <<>>, FALSE, <<>>, FALSE)
WikiRedirected == WikiPage(TRUE, FALSE, 0, TRUE, FALSE, <<>>, FALSE, BioShe, FALSE)
WikiDisamb(k) == WikiPage(FALSE, TRUE, k, FALSE, FALSE, <<>>, FALSE, <<>>, FALSE)
WikiPointer == WikiPage(FALSE, FALSE, 0, FALSE, FALSE, <<>>, FALSE, <<>>, TRUE)
WikiMembersOnly ==
    WikiPage(FALSE, FALSE, 0, FALSE, TRUE, <<"A">>, FALSE, <<>>, FALSE)

\* What the web answers to one run of _wiki_get_artist_soup: the page at the
\* artist url, the page behind the "(disambiguation)" link, the page behind
\* the 'band' link, and the fetch that raises (0: none does).
WikiResponse(direct, hop, band, failAt) ==
    [direct |-> direct, hop |-> hop, band |-> band, failAt |-> failAt]

WikiPerson(bio) == WikiPage(FALSE, FALSE, 0, TRUE, FALSE, <<>>, FALSE, bio, FALSE)
WikiGroup(ms) == WikiPage(FALSE, FALSE, 0, TRUE, TRUE, ms, TRUE, <<>>, FALSE)

\* the answers of wikipedia drawn while genderise calls are explored
WikiResponses ==
    {WikiResponse(d, WikiPlain, WikiPlain, 0) :
        d \in {WikiPlain, WikiRedirected, WikiDisamb(2), WikiPerson(BioHe)}
              \cup {WikiGroup(ms) : ms \in SeqsUpTo(Names, 1)}}
    \cup {WikiResponse(WikiPlain, WikiPlain, WikiPlain, 1)}

\* the answers of wikipedia drawn while batches are explored
BatchWikiResponses ==
    {WikiResponse(WikiPlain, WikiPlain, WikiPlain, 0),
     WikiResponse(WikiPerson(BioHe), WikiPlain, WikiPlain, 0),
     WikiResponse(WikiPlain, WikiPlain, WikiPlain, 1)}

\* A last.fm wiki page: notfound (status 404), facts (the factbox lists at
\* least one item), group (the factbox has Members), members, linked, bio
\* (text of div.wiki-content p), raises (the fetch fails).
LastfmPage(notfound, facts, group, members, linked, bio, raises) ==
    [notfound |-> notfound, facts |-> facts, group |-> group,
     members |-> members, linked |-> linked, bio |-> bio, raises |-> raises]

LastfmNotFound == LastfmPage(TRUE, FALSE, FALSE, <<>>, FALSE, <<>>, FALSE)
LastfmPerson(bio) == LastfmPage(FALSE, TRUE, FALSE, <<>>, FALSE, bio, FALSE)
LastfmGroup(ms) == LastfmPage(FALSE, TRUE, TRUE, ms, TRUE, <<>>, FALSE)
\* a page that is no artist page: prose and an empty factbox
LastfmBare(bio) == LastfmPage(FALSE, FALSE, FALSE, <<>>, FALSE, bio, FALSE)
LastfmDown == LastfmPage(FALSE, FALSE, FALSE, <<>>, FALSE, <<>>, TRUE)

\* the answers of last.fm drawn while genderise calls are explored
LastfmResponses ==
    {LastfmNotFound, LastfmPerson(BioShe), LastfmPerson(BioNoPronoun)}
    \cup {LastfmGroup(ms) : ms \in MemberNameLists}

\* the answers of last.fm drawn while batches are explored
BatchLastfmResponses == {LastfmNotFound, LastfmPerson(BioShe)}

\* the answers of the sources drawn while the classifier is explored
ClassifierWikiResponses ==
    {WikiResponse(WikiPerson(bio), WikiPlain, WikiPlain, 0) : bio \in Corpora}
ClassifierLastfmResponses ==
    {LastfmNotFound} \cup {LastfmPerson(bio) : bio \in Corpora}

\* the answers of the sources drawn while the tokenizer is explored
TokenizerWikiResponses ==
    {WikiResponse(WikiPerson(bio), WikiPlain, WikiPlain, 0) : bio \in BrokenCorpora}
TokenizerLastfmResponses ==
    {LastfmNotFound} \cup {LastfmPerson(bio) : bio \in BrokenCorpora}

\* the answers of the sources drawn while the page locators are explored:
\* every shape of the page at the artist url, of the page behind the
\* "(disambiguation)" link and of the page behind the 'band' link
LocateWikiResponses ==
    {WikiResponse(d, h, b, n) :
        d \in {WikiPlain, WikiRedirected, WikiDisamb(0), WikiDisamb(1),
               WikiDisamb(2), WikiPointer, WikiMembersOnly,
               WikiPerson(BioHe), WikiPerson(BioBlank)},
        h \in {WikiPlain, WikiDisamb(1), WikiDisamb(2)},
        b \in {WikiPlain, WikiPerson(BioThey)},
        n \in 0..3}
LocateLastfmResponses ==
    {LastfmNotFound, LastfmDown, LastfmPerson(BioShe), LastfmPerson(BioBlank),
     LastfmPerson(BioEmpty), LastfmBare(BioShe)}

\* _wiki_is_artist_page / _wiki_is_group / _wiki_is_disambiguation
wiki_is_artist_page(soup) == soup.artist
wiki_is_group(soup) == soup.group
wiki_is_disambiguation(soup) == soup.disamb
lastfm_is_group(soup) == soup.group

\* _wiki_get_group_members / _lastfm_get_group_members
wiki_get_group_members(soup) ==
    [i \in 1..Len(soup.members) |->
        Artist(soup.members[i], None,
               IF soup.linked THEN WikiLinkUrl(soup.members[i]) ELSE NoUrl, NoUrl)]
lastfm_get_group_members(soup) ==
    [i \in 1..Len(soup.members) |->
        Artist(soup.members[i], None, NoUrl,
               IF soup.linked THEN LastfmLinkUrl(soup.members[i]) ELSE NoUrl)]

\* _wiki_get_bio / _lastfm_get_bio
wiki_get_bio(soup) == soup.bio
lastfm_get_bio(soup) == soup.bio

\* The outcome of a page locator: soup (<<>> for None, else <<page>>), top
\* (the artist left on top of the stack), fetches (requests made), raised.
Located(soup, top, fetches, raised) ==
    [soup |-> soup, top |-> top, fetches |-> fetches, raised |-> raised]

\* as wiki_get_disambiguated_artist_soup, but with several 'band' links the
\* first one is followed
wiki_get_disambiguated_artist_soup_first(cur, soup, resp, done) ==
    IF soup.bands >= 1 THEN
        IF resp.failAt = done + 1 THEN Located(<<>>, cur, done + 1, TRUE)
        ELSE IF wiki_is_artist_page(resp.band)
             THEN Located(<<resp.band>>,
                          Artist(cur.name, cur.spotify_id,
                                 WikiLinkUrl("band"), cur.lastfm_url),
                          done + 1, FALSE)
             ELSE Located(<<>>, cur, done + 1, FALSE)
    ELSE Located(<<>>, cur, done, FALSE)

\* _wiki_get_disambiguated_artist_soup(soup), run for artist `cur` on top of
\* the stack, with `done` fetches made so far
wiki_get_disambiguated_artist_soup(cur, soup, resp, done) ==
    IF soup.bands > 1 THEN Located(<<>>, cur, done, FALSE)
    ELSE IF soup.bands = 1 THEN
        IF resp.failAt = done + 1 THEN Located(<<>>, cur, done + 1, TRUE)
        ELSE IF wiki_is_artist_page(resp.band)
             THEN Located(<<resp.band>>,
                          Artist(cur.name, cur.spotify_id,
                                 WikiLinkUrl("band"), cur.lastfm_url),
                          done + 1, FALSE)
             ELSE Located(<<>>, cur, done + 1, FALSE)
    ELSE Located(<<>>, cur, done, FALSE)

\* _wiki_find_disambiguation(soup)
wiki_find_disambiguation(cur, soup, resp, done) ==
    IF soup.pointer THEN
        IF resp.failAt = done + 1 THEN Located(<<>>, cur, done + 1, TRUE)
        ELSE IF wiki_is_disambiguation(resp.hop)
             THEN wiki_get_disambiguated_artist_soup(cur, resp.hop, resp, done + 1)
             ELSE Located(<<>>, cur, done + 1, FALSE)
    ELSE Located(<<>>, cur, done, FALSE)

\* _wiki_get_artist_soup() for `artist` on top of the stack
wiki_get_artist_soup(artist, resp) ==
    LET url == IF artist.wiki_url # NoUrl THEN artist.wiki_url
               ELSE WikiUrl(artist.name)
        withUrl == Artist(artist.name, artist.spotify_id, url, artist.lastfm_url)
        direct == resp.direct
    IN IF resp.failAt = 1 THEN Located(<<>>, artist, 1, TRUE)
       ELSE IF direct.redirected THEN Located(<<>>, artist, 1, FALSE)
       ELSE IF wiki_is_disambiguation(direct) THEN
            LET dis == wiki_get_disambiguated_artist_soup(withUrl, direct, resp, 1)
            IN IF dis.raised \/ dis.soup # <<>> THEN dis
               ELSE Located(<<>>, artist, dis.fetches, FALSE)
       ELSE IF wiki_is_artist_page(direct) THEN Located(<<direct>>, withUrl, 1, FALSE)
       ELSE LET found == wiki_find_disambiguation(withUrl, direct, resp, 1)
            IN IF found.raised THEN found
               ELSE Located(<<>>, artist, found.fetches, FALSE)

\* _lastfm_get_artist_soup() for `artist` on top of the stack
lastfm_get_artist_soup(artist, resp) ==
    LET url == IF artist.lastfm_url # NoUrl THEN artist.lastfm_url
               ELSE LastfmUrl(artist.name)
    IN IF resp.raises THEN Located(<<>>, artist, 1, TRUE)
       ELSE IF resp.notfound THEN Located(<<>>, artist, 1, FALSE)
       ELSE Located(<<resp>>,
                    Artist(artist.name, artist.spotify_id, artist.wiki_url, url),
                    1, FALSE)

\* ------------------------------------------------------------------------
\* The persistent store: the artists table and the meta (offset) table
\* ------------------------------------------------------------------------
\* the tuple `row` built by store() and inserted by _store_artist
TableRow(artist, context, gender, is_group, lead, members) ==
    [name |-> artist.name, spotify_id |-> artist.spotify_id,
     wiki_url |-> artist.wiki_url, lastfm_url |-> artist.lastfm_url,
     context |-> context, gender |-> gender, is_group |-> is_group,
     lead_gender |-> lead, nonbinary_count |-> members.nonbinary,
     female_count |-> members.female, male_count |-> members.male,
     unknown_count |-> members.unknown, member_names |-> members.names]

\* _store_artist(row): INSERT, or nothing on sqlite3.ProgrammingError
store_artist(table, row, ok) == IF ok THEN Append(table, row) ELSE table

\* _delete_artist(name): DELETE FROM artists WHERE name = ?
delete_artist(table, name) == SelectSeq(table, LAMBDA r : r.name # name)

\* the DBRow that _checked_result builds from a table row
RowToDBRow(r) ==
    DBRow(Artist(r.name, r.spotify_id, r.wiki_url, r.lastfm_url),
          r.context, r.gender, r.is_group, r.lead_gender,
          MemberResults(r.nonbinary_count, r.female_count, r.male_count,
                        r.unknown_count, r.member_names))

\* _checked_result(name): fetchone() of SELECT * FROM artists WHERE name = ?
\* The query has no ORDER BY: any row of that name may be the one returned.
checked_result(table, name) ==
    {RowToDBRow(table[i]) : i \in {j \in 1..Len(table) : table[j].name = name}}

\* the number of rows of the artists table that carry `name`
RowsOf(table, name) == Cardinality({j \in 1..Len(table) : table[j].name = name})

\* the table holds a row of that name with a known gender, or a group row
KnownIn(table, name) ==
    \E j \in 1..Len(table) : /\ table[j].name = name
                             /\ (table[j].gender # None \/ table[j].is_group)

\* _set_offset(offset): INSERT INTO meta(offset); timestamp defaults to
\* CURRENT_TIMESTAMP, which has a resolution of one second
set_offset(log, offset, time) == Append(log, [timestamp |-> time, offset |-> offset])

\* _get_offset(): SELECT offset FROM meta ORDER BY timestamp DESC LIMIT 1.
\* Rows sharing the greatest timestamp are in no defined order.
get_offset(log) ==
    IF log = <<>> THEN {0}
    ELSE {log[i].offset : i \in {j \in 1..Len(log) :
              \A k \in 1..Len(log) : log[k].timestamp <= log[j].timestamp}}

\* store(artist, gender, context, is_group, lead, members): the DBRow returned;
\* members is <<>> for a falsy argument (None or []) and <<m>> otherwise
EmptyMembers == MemberResults(0, 0, 0, 0, <<>>)

\* as store, but a group record takes the gender of its lead
store_lead_as_gender(artist, gender, context, is_group, lead, members) ==
    DBRow(artist, context, IF is_group THEN lead ELSE gender, is_group, lead,
          IF members = <<>> THEN EmptyMembers ELSE members[1])

store(artist, gender, context, is_group, lead, members) ==
    DBRow(artist, context, gender, is_group, lead,
          IF members = <<>> THEN EmptyMembers ELSE members[1])

\* the table after store(): the row of the DBRow is handed to _store_artist
Stored(table, dbrow, ok) ==
    store_artist(table,
                 TableRow(dbrow.artist, dbrow.context, dbrow.gender,
                          dbrow.is_group, dbrow.lead, dbrow.members), ok)

\* ------------------------------------------------------------------------
\* Session report
\* ------------------------------------------------------------------------
EmptyReport == [artists |-> {}, nonbinary |-> 0, female |-> 0, male |-> 0, unknown |-> 0]

\* add_to_report(dbrow)
add_to_report(rep, dbrow) ==
    IF dbrow.artist \in rep.artists THEN rep
    ELSE IF ~dbrow.is_group THEN
        LET key == IF dbrow.gender # None THEN dbrow.gender ELSE "unknown"
        IN [rep EXCEPT ![key] = @ + 1]
    ELSE [rep EXCEPT !.nonbinary = @ + dbrow.members.nonbinary,
                     !.female = @ + dbrow.members.female,
                     !.male = @ + dbrow.members.male,
                     !.unknown = @ + dbrow.members.unknown]

\* the number of people the report has counted: the totals get_report prints
Total(rep) == rep.nonbinary + rep.female + rep.male + rep.unknown

\* as UnresolvedRow, but the row reported is a group row
UnresolvedRowAsGroup(artist) == DBRow(artist, <<>>, None, TRUE, "", EmptyMembers)

\* the row genderise reports when no source yielded a result
UnresolvedRow(artist) == DBRow(artist, <<>>, None, FALSE, "", EmptyMembers)

\* ------------------------------------------------------------------------
\* Decisions of genderise and _get_group_genders
\* ------------------------------------------------------------------------
\* as IsStale, but every cached record counts as stale
IsStaleAlways(result) == TRUE

\* genderise: "result.gender is None and not result.is_group"
IsStale(result) == result.gender = None /\ ~result.is_group

\* genderise: what the cache-hit branch returns (a bare return)
HitReturn(result) == None

\* genderise: sources = ['wiki', 'lastfm'] ... sources.pop()
InitialSources == <<"wiki", "lastfm">>
PoppedSource(sources) == sources[Len(sources)]
\* as AfterPop, but the source tried stays in the list
AfterPopKeeps(sources) == sources
AfterPop(sources) == SubSeq(sources, 1, Len(sources) - 1)

\* as TooDeep, but bailing one level later
TooDeepLate(st) == Len(st) > 2

\* _get_group_genders: "len(self._current_artist_stack) > 1"
TooDeep(st) == Len(st) > 1

\* as NextLead, but without the test of ix
NextLeadEvery(ix, lead, gender) == gender

\* _get_group_genders: "if ix == 0: lead = gender"
NextLead(ix, lead, gender) == IF ix = 0 THEN gender ELSE lead

\* Counter(genders)[g]
CountOf(genders, g) == Cardinality({i \in 1..Len(genders) : genders[i] = g})

\* as CountMembers, but looking the unknown members up under 'unknown'
CountMembersUnknownKey(genders, names) ==
    MemberResults(CountOf(genders, "nonbinary"), CountOf(genders, "female"),
                  CountOf(genders, "male"), CountOf(genders, "unknown"), names)

\* _get_group_genders: the MemberResults built from the Counter
CountMembers(genders, names) ==
    MemberResults(CountOf(genders, "nonbinary"), CountOf(genders, "female"),
                  CountOf(genders, "male"), CountOf(genders, None), names)

\* ------------------------------------------------------------------------
\* State
\* ------------------------------------------------------------------------
VARIABLES
    artists,      \* the artists table, rows in insertion order
    meta,         \* the meta table, rows in insertion order
    now,          \* the database clock, in seconds
    stack,        \* _current_artist_stack
    report,       \* _report
    force_fetch,  \* _force_fetch
    fetched,      \* _fetched_artists_to_process
    cs,           \* control stack: one frame per running genderise call
    bat,          \* the running genderise_batch: its locals offset and ix
    status,       \* "idle", "fetched" (a batch is set), "running", or
                  \* "raised" (an exception has left the API)
    ncalls,       \* top-level operations started so far
    faults,       \* store writes and deletes that have failed so far
    restarts,     \* process restarts so far
    hist          \* what an observer of the run has recorded

vars == <<artists, meta, now, stack, report, force_fetch, fetched, cs, bat,
          status, ncalls, faults, restarts, hist>>

\* The search catalog: items[].name and items[].id in result order
Catalog == << [name |-> "A", id |-> "s1"], [name |-> "G", id |-> "s2"],
              [name |-> "A", id |-> "s3"] >>
BatchLimit == 2      \* min([50, self._batch_limit])

\* the page of the catalog at `offset`
CatalogPage(offset) ==
    LET last == IF offset + BatchLimit > Len(Catalog) THEN Len(Catalog)
                ELSE offset + BatchLimit
        items == IF offset >= last THEN <<>> ELSE SubSeq(Catalog, offset + 1, last)
    IN [i \in 1..Len(items) |-> Artist(items[i].name, items[i].id, NoUrl, NoUrl)]

\* a frame of genderise(artist): the locals of genderise, of the
\* _genderise_from_source it runs and of its _get_group_genders, and the
\* position (pc) in them.  The fields from tried on record the history of
\* the call: the sources tried, the member names the group page listed, for
\* every member the label of its record and whether it was resolved (found in
\* the cache or on a page), the label of the record of this artist, whether
\* the call was a cache hit, whether its store write succeeded, the pages it
\* has requested, and what the call found at its first line: the total of
\* the report (base), the length of the stack (depth) and the number of rows
\* of its name in the table (rows), and whether one of them had a known
\* gender or was a group record (known); and the prose handed to
\* _get_gender_and_context (corpus).
NewFrame(artist) ==
    [artist |-> artist, pc |-> "enter", sources |-> <<>>, result |-> <<>>,
     source |-> None, todo |-> <<>>, ix |-> 0, lead |-> None, names |-> <<>>,
     genders |-> <<>>, ret |-> None,
     tried |-> <<>>, listed |-> <<>>, labels |-> <<>>, resolved |-> <<>>,
     label |-> None, hit |-> FALSE, stored |-> FALSE, fetches |-> 0,
     base |-> 0, depth |-> 0, rows |-> 0, known |-> FALSE, corpus |-> <<>>]

NoBatch == [active |-> FALSE, offset |-> 0, ix |-> 0]
\* hist: the offset the last batch was fetched at, the batch index an
\* interrupt struck at (-1: none), the exception that left the API, the names
\* whose genderise call has returned in this session, and the names handed to
\* add_to_report in this session
NoHist == [batchStart |-> 0, intrIx |-> -1, exc |-> None, returned |-> {},
           counted |-> {}]

Top == cs[Len(cs)]
SetTop(f) == [cs EXCEPT ![Len(cs)] = f]

\* The outcomes a write to the store may have: it is committed (TRUE), or it
\* raises sqlite3.ProgrammingError, which _store_artist and _delete_artist
\* catch (FALSE); failures are injected up to MaxFaults times
Outcomes == IF faults < MaxFaults THEN BOOLEAN ELSE {TRUE}
Charge(ok) == faults' = IF ok THEN faults ELSE faults + 1

\* The errors of the database that the two except clauses do not name
\* (sqlite3.OperationalError: the file is locked, read-only or the disk full)
Uncaught == "OperationalError"

\* Tables an earlier process has left in the database file: the record
\* genderise stores for `name` from a last.fm page with prose `bio`, and the
\* records it stores for a group whose one member has that page (the last
\* table is what it leaves for a group page 'A' that lists 'A' as its member)
PersonRecord(name, bio) ==
    LET loc == lastfm_get_artist_soup(get_artist_obj_from_name(name), LastfmPerson(bio))
        gc == get_gender_and_context(bio)
    IN store(loc.top, gc.gender, gc.context, FALSE, None, <<>>)
MemberRecord(name, bio) ==
    LET loc == lastfm_get_artist_soup(
                   Artist(name, None, NoUrl, LastfmLinkUrl(name)), LastfmPerson(bio))
        gc == get_gender_and_context(bio)
    IN store(loc.top, gc.gender, gc.context, FALSE, None, <<>>)
GroupRecord(name, member, bio) ==
    LET loc == lastfm_get_artist_soup(get_artist_obj_from_name(name),
                                      LastfmGroup(<<member>>))
        gender == get_gender_and_context(bio).gender
    IN store(loc.top, None, NoContext, TRUE, gender,
             <<CountMembers(<<gender>>, <<member>>)>>)
InitialTables ==
    { <<>>,
      Stored(<<>>, PersonRecord("A", BioShe), TRUE),
      Stored(<<>>, PersonRecord("A", BioNoPronoun), TRUE),
      Stored(Stored(<<>>, MemberRecord("A", BioShe), TRUE),
             GroupRecord("G", "A", BioShe), TRUE),
      Stored(Stored(<<>>, MemberRecord("A", BioNoPronoun), TRUE),
             GroupRecord("A", "A", BioNoPronoun), TRUE) }

Init ==
    /\ artists \in InitialTables
    /\ meta = <<>>
    /\ now = 0
    /\ stack = <<>>
    /\ report = EmptyReport
    /\ force_fetch \in BOOLEAN
    /\ fetched = <<>>
    /\ cs = <<>>
    /\ bat = NoBatch
    /\ status = "idle"
    /\ ncalls = 0
    /\ faults = 0
    /\ restarts = 0
    /\ hist = NoHist

\* ------------------------------------------------------------------------
\* Top-level operations
\* ------------------------------------------------------------------------
\* the clock of the database advances by one second
Tick ==
    /\ now < MaxTime
    /\ now' = now + 1
    /\ UNCHANGED <<artists, meta, stack, report, force_fetch, fetched, cs, bat,
                   status, ncalls, faults, restarts, hist>>

\* genderise(get_artist_obj_from_name(name)) is called on the idle object
CallGenderise(name) ==
    /\ status = "idle"
    /\ ncalls < MaxCalls
    /\ cs' = <<NewFrame(get_artist_obj_from_name(name))>>
    /\ status' = "running"
    /\ ncalls' = ncalls + 1
    /\ UNCHANGED <<artists, meta, now, stack, report, force_fetch, fetched, bat,
                   faults, restarts, hist>>

\* set_artist_batch_from_spotify_search(offset); given = -1 stands for None.
\* The search either answers with a page of artists or with an error payload.
SetBatch(given, apiOk) ==
    /\ status = "idle"
    /\ \E offset \in (IF given = -1 THEN get_offset(meta) ELSE {given}) :
        /\ meta' = IF given = -1 THEN meta ELSE set_offset(meta, offset, now)
        /\ fetched' = IF apiOk THEN CatalogPage(offset) ELSE <<>>
        /\ hist' = [hist EXCEPT !.batchStart = offset, !.intrIx = -1,
                                !.exc = IF apiOk THEN None ELSE "RuntimeError"]
    /\ status' = IF apiOk THEN "fetched" ELSE "raised"
    /\ UNCHANGED <<artists, now, stack, report, force_fetch, cs, bat, ncalls,
                   faults, restarts>>

\* The playlist answer: resp['tracks']['items'], each track with its
\* track['track']['artists'], whose entries carry a name and an id
Credits == {Catalog[i] : i \in 1..Len(Catalog)}
Tracks == SeqsUpTo(Credits, MaxCredits) \ {<<>>}
Playlists == SeqsUpTo(Tracks, MaxTracks)

\* artist_set: the set of the Artist tuples built from every credit of every
\* track; two tuples are the same element when all four fields are equal
ArtistSet(playlist) ==
    UNION {{Artist(playlist[t][c].name, playlist[t][c].id, NoUrl, NoUrl) :
                c \in 1..Len(playlist[t])} : t \in 1..Len(playlist)}

\* list(artist_set): the elements of the set, in an order the language does
\* not define
ListsOf(set) ==
    {order \in SeqsUpTo(set, Cardinality(set)) :
        /\ Len(order) = Cardinality(set)
        /\ \A i, j \in 1..Len(order) : order[i] = order[j] => i = j}

\* set_artists_batch_from_spotify_public_playlist(url): the answer is a
\* playlist, or an error payload (KeyError, re-raised as RuntimeError before
\* the batch is assigned).  The name and the description of the playlist it
\* keeps are read by no operation modelled here.
SetPlaylist(playlist, apiOk) ==
    /\ status = "idle"
    /\ IF apiOk
       THEN /\ fetched' \in ListsOf(ArtistSet(playlist))
            /\ status' = "fetched"
            /\ hist' = [hist EXCEPT !.exc = None, !.intrIx = -1]
       ELSE /\ status' = "raised"
            /\ hist' = [hist EXCEPT !.exc = "RuntimeError", !.intrIx = -1]
            /\ UNCHANGED fetched
    /\ UNCHANGED <<artists, meta, now, stack, report, force_fetch, cs, bat,
                   ncalls, faults, restarts>>

\* The attributes of Genderifier the script looks up for its batch mode.  The
\* class defines set_artist_batch_from_spotify_search and no attribute named
\* set_artist_batch_from_spotify.
BatchSetters == {"set_artist_batch_from_spotify_search"}
CliBatchSetter == "set_artist_batch_from_spotify"

\* the batch mode of the script, with --offset given (-1: not given) and
\* --forever or --once: "while forever: ... else: ..." begins, in both modes,
\* with genderifier.set_artist_batch_from_spotify(offset), and the lookup of
\* an attribute the object does not have raises AttributeError
BatchMode(given, forever) ==
    /\ status = "idle"
    /\ ncalls = 0
    /\ IF CliBatchSetter \in BatchSetters
       THEN SetBatch(given, TRUE)
       ELSE /\ status' = "raised"
            /\ hist' = [hist EXCEPT !.exc = "AttributeError"]
            /\ UNCHANGED <<artists, meta, now, stack, report, force_fetch,
                           fetched, cs, bat, ncalls, faults, restarts>>

\* genderise_batch() up to the first call of genderise; the CLI runs it
\* right after the batch was set
StartBatch ==
    /\ status = "fetched"
    /\ ncalls < MaxCalls
    /\ ncalls' = ncalls + 1
    /\ \E offset \in get_offset(meta) :
        IF fetched = <<>>
        THEN /\ status' = "idle"
             /\ UNCHANGED <<bat, cs>>
        ELSE /\ bat' = [active |-> TRUE, offset |-> offset, ix |-> 0]
             /\ cs' = <<NewFrame(fetched[1])>>
             /\ status' = "running"
    /\ UNCHANGED <<artists, meta, now, stack, report, force_fetch, fetched,
                   faults, restarts, hist>>

\* the process ends and a new one is started on the same database file
Restart ==
    /\ status \in {"idle", "raised"}
    /\ restarts < MaxRestarts
    /\ restarts' = restarts + 1
    /\ stack' = <<>>
    /\ report' = EmptyReport
    /\ force_fetch' \in BOOLEAN
    /\ fetched' = <<>>
    /\ cs' = <<>>
    /\ bat' = NoBatch
    /\ status' = "idle"
    /\ hist' = [hist EXCEPT !.returned = {}, !.counted = {}, !.exc = None, !.intrIx = -1]
    /\ UNCHANGED <<artists, meta, now, ncalls, faults>>

\* ------------------------------------------------------------------------
\* Exceptions.  genderise and _get_group_genders have no handler: an
\* exception leaves every running genderise call (the stack is not popped).
\* genderise_batch: "except (KeyboardInterrupt, SystemExit): ix -= 1; raise"
\* and "finally: self._set_offset(offset + ix + 1)".
\* ------------------------------------------------------------------------
Interrupts == {"KeyboardInterrupt", "SystemExit"}

\* the value genderise_batch checkpoints when `kind` leaves genderise
CheckpointOnRaise(b, kind) ==
    IF kind \in Interrupts THEN b.offset + (b.ix - 1) + 1 ELSE b.offset + b.ix + 1

Unwind(kind) ==
    /\ cs' = <<>>
    /\ status' = "raised"
    /\ bat' = NoBatch
    /\ meta' = IF bat.active
               THEN set_offset(meta, CheckpointOnRaise(bat, kind), now)
               ELSE meta
    /\ hist' = [hist EXCEPT !.exc = kind,
                            !.intrIx = IF bat.active /\ kind \in Interrupts
                                       THEN bat.ix ELSE -1]

\* the operator interrupts the run (Ctrl-C) while a genderise call is running
Interrupt ==
    /\ status = "running"
    /\ Unwind("KeyboardInterrupt")
    /\ UNCHANGED <<artists, now, stack, report, force_fetch, fetched, ncalls, faults,
                   restarts>>

\* ------------------------------------------------------------------------
\* genderise(artist)
\* ------------------------------------------------------------------------
\* genderise, from its first line to the push on the stack: the cache check
GenderiseEnter ==
    /\ status = "running"
    /\ Top.pc = "enter"
    /\ LET name == Top.artist.name
           found == checked_result(artists, name)
           f == [Top EXCEPT !.base = Total(report), !.depth = Len(stack),
                            !.rows = RowsOf(artists, name),
                            !.known = KnownIn(artists, name)]
           miss(table) ==
               /\ artists' = table
               /\ stack' = Append(stack, f.artist)
               /\ cs' = SetTop([f EXCEPT !.pc = "try", !.sources = InitialSources])
               /\ UNCHANGED report
           skip ==
               /\ cs' = SetTop([f EXCEPT !.pc = "ret", !.ret = None])
               /\ UNCHANGED <<artists, stack, report>>
       IN IF found = {} THEN miss(artists) /\ UNCHANGED <<faults, hist>>
          ELSE \E result \in found :
                IF IsStale(result) \/ force_fetch
                THEN \E deleted \in Outcomes :
                        /\ Charge(deleted)
                        /\ IF deleted THEN miss(delete_artist(artists, name)) ELSE skip
                        /\ UNCHANGED hist
                ELSE /\ report' = add_to_report(report, result)
                     /\ hist' = [hist EXCEPT !.counted = @ \cup {name}]
                     /\ cs' = SetTop([f EXCEPT !.pc = "ret", !.ret = HitReturn(result),
                                               !.label = result.gender, !.hit = TRUE])
                     /\ UNCHANGED <<artists, stack, faults>>
    /\ UNCHANGED <<meta, now, force_fetch, fetched, bat, status, ncalls, restarts>>

\* one turn of "while len(sources) and result is None": the source popped is
\* asked through _genderise_from_source; loc is the outcome of its page
\* locator, group/members/bio what the located page shows
TrySource(source, loc, group, members, bio) ==
    /\ status = "running"
    /\ Top.pc = "try"
    /\ Top.result = <<>>
    /\ Top.sources # <<>>
    /\ PoppedSource(Top.sources) = source
    /\ LET classified == ~loc.raised /\ loc.soup # <<>> /\ ~group /\ ~IsBlank(bio)
           f == [Top EXCEPT !.sources = AfterPop(@), !.tried = Append(@, source),
                            !.fetches = @ + loc.fetches,
                            !.corpus = IF classified THEN bio ELSE @]
           st == [stack EXCEPT ![Len(stack)] = loc.top]
           cur == st[Len(st)]
           quiet == UNCHANGED <<meta, bat, status, hist>>
           keep == /\ cs' = SetTop(f)
                   /\ quiet
                   /\ UNCHANGED <<artists, faults>>
           save(row) ==
               \/ \E ok \in Outcomes :
                   /\ Charge(ok)
                   /\ artists' = Stored(artists, row, ok)
                   /\ cs' = SetTop([f EXCEPT !.result = <<row>>, !.stored = ok])
                   /\ quiet
               \/ /\ faults < MaxFaults
                  /\ faults' = faults + 1
                  /\ Unwind(Uncaught)
                  /\ UNCHANGED artists
       IN /\ stack' = st
          /\ IF loc.raised THEN
                /\ Unwind("RequestException")
                /\ UNCHANGED <<artists, faults>>
             ELSE IF loc.soup = <<>> THEN keep
                     ELSE IF group /\ TooDeep(st) THEN
                        save(store(cur, None, NoContext, TRUE, None, <<>>))
                     ELSE IF group /\ members = <<>> THEN
                        save(store(cur, None, NoContext, TRUE, None,
                                   <<CountMembers(<<>>, <<>>)>>))
                     ELSE IF group THEN
                        /\ cs' = Append(SetTop([f EXCEPT !.pc = "members",
                                                         !.source = source,
                                                         !.todo = members,
                                                         !.listed =
                                                            [i \in 1..Len(members) |->
                                                                members[i].name]]),
                                        NewFrame(members[1]))
                        /\ quiet
                        /\ UNCHANGED <<artists, faults>>
                     ELSE IF IsBlank(bio) THEN keep
                     ELSE LET gc == get_gender_and_context(bio)
                          IN save(store(cur, gc.gender, gc.context, FALSE, None, <<>>))
    /\ UNCHANGED <<now, report, force_fetch, fetched, ncalls, restarts>>

\* genderise at "if not self._delete_artist(name)": the DELETE raises an
\* error that _delete_artist does not catch
DeleteRaises ==
    /\ status = "running"
    /\ Top.pc = "enter"
    /\ faults < MaxFaults
    /\ \E result \in checked_result(artists, Top.artist.name) :
            IsStale(result) \/ force_fetch
    /\ faults' = faults + 1
    /\ Unwind(Uncaught)
    /\ UNCHANGED <<artists, now, stack, report, force_fetch, fetched, ncalls,
                   restarts>>

\* _genderise_from_source at "result = self.store(...)" for an expanded
\* group, the last member having returned: the INSERT raises an error that
\* _store_artist does not catch
GroupStoreRaises ==
    /\ status = "running"
    /\ Len(cs) >= 2
    /\ Top.pc = "ret"
    /\ Len(cs[Len(cs) - 1].todo) = 1
    /\ faults < MaxFaults
    /\ faults' = faults + 1
    /\ Unwind(Uncaught)
    /\ UNCHANGED <<artists, now, stack, report, force_fetch, fetched, ncalls,
                   restarts>>

\* _genderise_from_source('wiki'), wikipedia answering resp
TryWiki(resp) ==
    /\ status = "running"
    /\ Top.pc = "try"
    /\ LET loc == wiki_get_artist_soup(stack[Len(stack)], resp)
           soup == IF loc.soup = <<>> THEN WikiPlain ELSE loc.soup[1]
       IN TrySource("wiki", loc, wiki_is_group(soup),
                    wiki_get_group_members(soup), wiki_get_bio(soup))

\* _genderise_from_source('lastfm'), last.fm answering resp
TryLastfm(resp) ==
    /\ status = "running"
    /\ Top.pc = "try"
    /\ LET loc == lastfm_get_artist_soup(stack[Len(stack)], resp)
       IN TrySource("lastfm", loc, lastfm_is_group(resp),
                    lastfm_get_group_members(resp), lastfm_get_bio(resp))

\* genderise, after the loop over the sources: report, pop, return gender
GenderiseExit ==
    /\ status = "running"
    /\ Top.pc = "try"
    /\ Top.result # <<>> \/ Top.sources = <<>>
    /\ LET f == Top
           gender == IF f.result # <<>> THEN f.result[1].gender ELSE None
       IN /\ report' = add_to_report(report,
                          IF f.result # <<>> THEN f.result[1]
                          ELSE UnresolvedRow(f.artist))
          /\ stack' = SubSeq(stack, 1, Len(stack) - 1)
          /\ cs' = SetTop([f EXCEPT !.pc = "ret", !.ret = gender, !.label = gender])
          /\ hist' = [hist EXCEPT !.counted = @ \cup {f.artist.name}]
    /\ UNCHANGED <<artists, meta, now, force_fetch, fetched, bat, status, ncalls,
                   faults, restarts>>

\* _get_group_genders: genderise(artist) has returned for the member at ix;
\* the loop goes on with the next member or, after the last one, the group
\* is stored by _genderise_from_source
MemberReturn ==
    /\ status = "running"
    /\ Len(cs) >= 2
    /\ Top.pc = "ret"
    /\ LET callee == Top
           g == cs[Len(cs) - 1]
           gender == callee.ret
           g1 == [g EXCEPT !.names = Append(@, g.todo[1].name),
                           !.genders = Append(@, gender),
                           !.labels = Append(@, callee.label),
                           !.resolved = Append(@, callee.hit \/ callee.result # <<>>),
                           !.lead = NextLead(g.ix, g.lead, gender),
                           !.ix = @ + 1,
                           !.todo = Tail(@)]
           below == SubSeq(cs, 1, Len(cs) - 2)
       IN /\ hist' = [hist EXCEPT !.returned = @ \cup {callee.artist.name}]
          /\ IF g1.todo # <<>> THEN
                /\ cs' = below \o <<g1, NewFrame(g1.todo[1])>>
                /\ UNCHANGED <<artists, faults>>
             ELSE \E ok \in Outcomes :
                LET row == store(stack[Len(stack)], None, NoContext, TRUE, g1.lead,
                                 <<CountMembers(g1.genders, g1.names)>>)
                IN /\ Charge(ok)
                   /\ artists' = Stored(artists, row, ok)
                   /\ cs' = below \o <<[g1 EXCEPT !.pc = "try", !.result = <<row>>,
                                                  !.stored = ok]>>
    /\ UNCHANGED <<meta, now, stack, report, force_fetch, fetched, bat, status,
                   ncalls, restarts>>

\* as Checkpoint, but the position of the artist just finished
CheckpointAtArtist(b) == b.offset + b.ix

\* the value genderise_batch checkpoints when genderise has returned:
\* "finally: self._set_offset(offset + ix + 1)"
Checkpoint(b) == b.offset + b.ix + 1

\* genderise_batch: genderise(artist) has returned for the artist at ix;
\* "finally: self._set_offset(offset + ix + 1)", then the next artist
BatchReturn ==
    /\ status = "running"
    /\ Len(cs) = 1
    /\ Top.pc = "ret"
    /\ bat.active
    /\ meta' = set_offset(meta, Checkpoint(bat), now)
    /\ hist' = [hist EXCEPT !.returned = @ \cup {Top.artist.name}]
    /\ IF bat.ix + 1 < Len(fetched)
       THEN /\ bat' = [bat EXCEPT !.ix = @ + 1]
            /\ cs' = <<NewFrame(fetched[bat.ix + 2])>>
            /\ UNCHANGED status
       ELSE /\ bat' = NoBatch
            /\ cs' = <<>>
            /\ status' = "idle"
    /\ UNCHANGED <<artists, now, stack, report, force_fetch, fetched, ncalls,
                   faults, restarts>>

\* the genderise call made on the idle object has returned
CallReturn ==
    /\ status = "running"
    /\ Len(cs) = 1
    /\ Top.pc = "ret"
    /\ ~bat.active
    /\ cs' = <<>>
    /\ status' = "idle"
    /\ hist' = [hist EXCEPT !.returned = @ \cup {Top.artist.name}]
    /\ UNCHANGED <<artists, meta, now, stack, report, force_fetch, fetched, bat,
                   ncalls, faults, restarts>>

\* ------------------------------------------------------------------------
\* Specifications
\* ------------------------------------------------------------------------
\* the steps of a running genderise call that draw no page
Resolve ==
    \/ GenderiseEnter
    \/ GenderiseExit

\* Spec: a process started on a database file that earlier processes have
\* filled; genderise is called for single names (the --name mode of the CLI
\* and callers of the class), with groups
Next ==
    \/ \E name \in Names : CallGenderise(name)
    \/ \E resp \in WikiResponses : TryWiki(resp)
    \/ \E resp \in LastfmResponses : TryLastfm(resp)
    \/ MemberReturn
    \/ CallReturn
    \/ Resolve
    \/ DeleteRaises
    \/ GroupStoreRaises

Spec == Init /\ [][Next]_vars


\* SpecBatch: batches of the search catalog are fetched and run
InitBatch ==
    /\ Init
    /\ artists = <<>>

NextBatch ==
    \/ Tick
    \/ \E given \in -1..MaxOffset, apiOk \in BOOLEAN : SetBatch(given, apiOk)
    \/ StartBatch
    \/ \E resp \in BatchWikiResponses : TryWiki(resp)
    \/ \E resp \in BatchLastfmResponses : TryLastfm(resp)
    \/ BatchReturn
    \/ Resolve
    \/ Interrupt
    \/ Restart

SpecBatch == InitBatch /\ [][NextBatch]_vars

\* SpecClassify: one genderise call for a single name on an empty database,
\* up to its return; the pages found are pages of persons, whose prose is
\* classified
InitClassify ==
    /\ Init
    /\ artists = <<>>

NextClassify ==
    \/ \E name \in Names : CallGenderise(name)
    \/ \E resp \in ClassifierWikiResponses : TryWiki(resp)
    \/ \E resp \in ClassifierLastfmResponses : TryLastfm(resp)
    \/ Resolve

SpecClassify == InitClassify /\ [][NextClassify]_vars

\* SpecLocate: one genderise call for a single name, up to its return; the
\* sources answer with pages of every shape the locators tell apart
NextLocate ==
    \/ \E name \in Names : CallGenderise(name)
    \/ \E resp \in LocateWikiResponses : TryWiki(resp)
    \/ \E resp \in LocateLastfmResponses : TryLastfm(resp)
    \/ Resolve
    \/ DeleteRaises

SpecLocate == Init /\ [][NextLocate]_vars

\* SpecTokenize: as SpecClassify, with prose whose tokens are separated by
\* any whitespace character
NextTokenize ==
    \/ \E name \in Names : CallGenderise(name)
    \/ \E resp \in TokenizerWikiResponses : TryWiki(resp)
    \/ \E resp \in TokenizerLastfmResponses : TryLastfm(resp)
    \/ Resolve

SpecTokenize == InitClassify /\ [][NextTokenize]_vars

\* SpecPlaylist: the batch is set from a playlist and run
NextPlaylist ==
    \/ \E playlist \in Playlists, apiOk \in BOOLEAN : SetPlaylist(playlist, apiOk)
    \/ StartBatch
    \/ \E resp \in BatchWikiResponses : TryWiki(resp)
    \/ \E resp \in BatchLastfmResponses : TryLastfm(resp)
    \/ BatchReturn
    \/ Resolve
    \/ Interrupt

SpecPlaylist == InitBatch /\ [][NextPlaylist]_vars

\* SpecCli: one run of the command line script on a database file that
\* earlier processes have filled: the lookup of one name, or the batch mode
InitCli ==
    /\ Init
    /\ ~force_fetch

NextCli ==
    \/ \E name \in Names : CallGenderise(name)
    \/ \E given \in -1..MaxOffset, forever \in BOOLEAN : BatchMode(given, forever)
    \/ \E resp \in WikiResponses : TryWiki(resp)
    \/ \E resp \in LastfmResponses : TryLastfm(resp)
    \/ MemberReturn
    \/ CallReturn
    \/ Resolve
    \/ DeleteRaises
    \/ GroupStoreRaises

SpecCli == InitCli /\ [][NextCli]_vars

\* SpecCycle: one genderise call on an empty table, up to its return, with
\* group pages whose member lists name the group itself or each other; a
\* step that can be taken is taken: the interpreter runs the next statement
\* and every request is answered or fails
InitCycle ==
    /\ Init
    /\ artists = <<>>

NextCycle ==
    \/ \E name \in Names : CallGenderise(name)
    \/ \E resp \in WikiResponses : TryWiki(resp)
    \/ \E resp \in LastfmResponses : TryLastfm(resp)
    \/ MemberReturn
    \/ Resolve
    \/ DeleteRaises
    \/ GroupStoreRaises

SpecCycle == InitCycle /\ [][NextCycle]_vars /\ WF_vars(NextCycle)

TypeOK ==
    /\ status \in {"idle", "fetched", "running", "raised"}
    /\ now \in 0..MaxTime
    /\ ncalls \in 0..MaxCalls
    /\ faults \in 0..MaxFaults

\* ------------------------------------------------------------------------
\* Properties
\* ------------------------------------------------------------------------
Frames == {cs[i] : i \in 1..Len(cs)}

\* the frame's group record came out of the expansion of its member list
Expanded(f) == f.listed # <<>> /\ f.todo = <<>> /\ f.result # <<>>

SumCounts(m) == m.nonbinary + m.female + m.male + m.unknown

\* a record with a known gender or a group record
KnownOrGroup(r) == r.gender # None \/ r.is_group

\* a genderise call is at its first line
Entering == status = "running" /\ cs # <<>> /\ Top.pc = "enter"

\* the step takes the call on top from its first line to a cache hit:
\* nothing pushed, nothing fetched, nothing written
HitStep ==
    /\ Len(cs') = Len(cs)
    /\ cs'[Len(cs')].pc = "ret"
    /\ cs'[Len(cs')].hit
    /\ cs'[Len(cs')].fetches = 0
    /\ stack' = stack
    /\ artists' = artists

\* C1 (as stated): a name whose genderise call has returned in this session
\* is, with force_fetch off, answered from the cache by every later call,
\* without a page fetch.
C1_SecondCallIsHit ==
    [][(Entering /\ ~force_fetch /\ Top.artist.name \in hist.returned) => HitStep]_vars

\* C1 (amended): with force_fetch off, a call on a name all of whose stored
\* records have a known gender or are group records is a cache hit and
\* fetches no page, be the record from this run or from an earlier process.
C1_GoodRecordIsHit ==
    [][(/\ Entering
        /\ ~force_fetch
        /\ checked_result(artists, Top.artist.name) # {}
        /\ \A r \in checked_result(artists, Top.artist.name) : KnownOrGroup(r))
       => HitStep]_vars

\* a second call on a name in one session has been answered from the cache
C1_Witness ==
    \E f \in Frames : f.hit /\ f.pc = "ret" /\ ~force_fetch
                      /\ f.artist.name \in hist.returned

\* C2: after an interrupt at batch index k the last checkpoint appended is
\* (offset the batch was fetched at) + k, and that is the offset the next
\* batch fetch without explicit offset reads.
C2_ResumeAtInterrupted ==
    (status = "raised" /\ hist.intrIx >= 0) =>
        /\ meta # <<>>
        /\ meta[Len(meta)].offset = hist.batchStart + hist.intrIx
        /\ get_offset(meta) = {hist.batchStart + hist.intrIx}

\* C3: every genderise call tries wiki first and lastfm second.
C3_PrimaryFirst ==
    \A f \in Frames : f.tried \in {<<>>, <<"wiki">>, <<"wiki", "lastfm">>}

\* C4: a cache hit pushes nothing, fetches nothing, and returns the gender
\* label of the cached record.
C4_HitReturnsLabel ==
    \A f \in Frames : f.hit => /\ f.pc = "ret"
                               /\ f.tried = <<>>
                               /\ f.fetches = 0
                               /\ f.ret = f.label

\* C5: the artists table holds at most one row per artist name.
C5_OneRowPerName ==
    \A i, j \in 1..Len(artists) : artists[i].name = artists[j].name => i = j

\* C6: the stack never holds more than two artists; only the call at depth
\* one expands a group; a group met at depth two is stored with no lead and
\* the empty distribution.
C6_BoundedRecursion ==
    /\ Len(stack) <= 2
    /\ Len(cs) <= 2
    /\ \A i \in 1..Len(cs) :
        /\ cs[i].pc = "members" => i = 1
        /\ (i > 1 /\ cs[i].result # <<>> /\ cs[i].result[1].is_group) =>
              /\ cs[i].result[1].lead = None
              /\ cs[i].result[1].members = EmptyMembers
              /\ cs[i].listed = <<>>

\* a group page was located for a member of a group and not expanded
C6_Witness ==
    /\ Len(stack) = 2
    /\ Len(cs) = 2
    /\ cs[2].result # <<>>
    /\ cs[2].result[1].is_group
    /\ cs[1].pc = "members"

\* C7: the distribution of an expanded group counts, for every label, the
\* members whose record carries that label (none counted as unknown),
\* whether the member was resolved freshly or found in the cache.
C7_DistributionOfLabels ==
    \A f \in Frames : Expanded(f) =>
        f.result[1].members = CountMembers(f.labels, f.listed)

\* C8 (as stated): the four counts of an expanded group add up to the number
\* of members that were resolved; a member that failed entirely is counted
\* nowhere.
C8_SumOfResolved ==
    \A f \in Frames : Expanded(f) =>
        SumCounts(f.result[1].members)
            = Cardinality({i \in 1..Len(f.resolved) : f.resolved[i]})

\* C8 (amended): the four counts of every group record add up to the number
\* of members listed; a member that failed entirely is counted as unknown.
C8_SumOfListed ==
    /\ \A i \in 1..Len(artists) : artists[i].is_group =>
          artists[i].nonbinary_count + artists[i].female_count
              + artists[i].male_count + artists[i].unknown_count
            = Len(artists[i].member_names)
    /\ \A f \in Frames : Expanded(f) =>
          /\ SumCounts(f.result[1].members) = Len(f.listed)
          /\ f.result[1].members.unknown
                >= Cardinality({i \in 1..Len(f.resolved) : ~f.resolved[i]})

\* a group was expanded and one of its members failed entirely
C8_Witness ==
    \E f \in Frames : Expanded(f) /\ f.stored
                      /\ \E i \in 1..Len(f.resolved) : ~f.resolved[i]

\* the least element of a nonempty set of numbers
Least(S) == CHOOSE i \in S : \A j \in S : i <= j

\* C9 (as stated): the lead of an expanded group is what genderise returned
\* for the first member, in page-list order, that was resolved.
C9_LeadIsFirstResolved ==
    \A f \in Frames : Expanded(f) =>
        LET R == {i \in 1..Len(f.resolved) : f.resolved[i]}
        IN f.result[1].lead = IF R = {} THEN None ELSE f.genders[Least(R)]

\* C9 (amended): members are resolved in page-list order and the lead is what
\* genderise returned for the first member listed.
C9_LeadIsFirstListed ==
    \A i \in 1..Len(cs) :
        LET f == cs[i]
        IN /\ f.pc = "members" =>
                /\ f.names \o [k \in 1..Len(f.todo) |-> f.todo[k].name] = f.listed
                /\ Len(f.genders) = Len(f.names)
                /\ i < Len(cs)
                /\ cs[i + 1].artist = f.todo[1]
           /\ Expanded(f) =>
                /\ f.result[1].members.names = f.listed
                /\ Len(f.genders) = Len(f.listed)
                /\ f.result[1].lead = f.genders[1]

\* the first member listed failed, a later one got a label, the lead is none
C9_Witness ==
    \E f \in Frames :
        /\ Expanded(f)
        /\ Len(f.listed) >= 2
        /\ ~f.resolved[1]
        /\ f.resolved[2] /\ f.genders[2] # None
        /\ f.result[1].lead = None

\* the step hands the artist of the call on top to add_to_report
Reporting ==
    /\ status = "running" /\ cs # <<>> /\ Top.pc \in {"enter", "try"}
    /\ Len(cs') = Len(cs)
    /\ cs'[Len(cs')].pc = "ret"
    /\ cs'[Len(cs')].hit \/ Top.pc = "try"

\* C10: an artist handed to add_to_report again in one session leaves the
\* totals as they are, and the set of artists of the report has one element
\* per artist counted.
C10_CountedOnce ==
    /\ [][(Reporting /\ Top.artist.name \in hist.counted) => report' = report]_vars
    /\ [](Cardinality(report.artists) = Cardinality(hist.counted))

\* the names a group page listed are pairwise different and none is the
\* name of the group
FreshMembers(f) ==
    /\ \A i, j \in 1..Len(f.listed) : f.listed[i] = f.listed[j] => i = j
    /\ \A i \in 1..Len(f.listed) : f.listed[i] # f.artist.name

\* C11: when the first call of a session has resolved an uncached group with
\* n members, nothing having been counted before, and has reported, the
\* total of the report is n more than it was when the call began.
C11_MembersCountedOnce ==
    \A f \in Frames :
        (ncalls = 1 /\ f.pc = "ret" /\ Expanded(f) /\ FreshMembers(f))
        => Total(report) = f.base + Len(f.listed)

\* the step ends the loop over the sources of the call on top
Exiting ==
    /\ status = "running" /\ cs # <<>> /\ Top.pc = "try"
    /\ Len(cs') = Len(cs)
    /\ cs'[Len(cs')].pc = "ret"

\* C12: when every source has been tried and none yielded a result, the call
\* returns no label, the unknown total of the report grows by one and
\* nothing else of the report changes, the table holds no row of that name
\* and is left as it is, and the artist is popped from the stack.
C12_UnresolvedOutcome ==
    [][(Exiting /\ Top.result = <<>> /\ Top.sources = <<>>) =>
           /\ cs'[Len(cs')].ret = None
           /\ report' = [report EXCEPT !.unknown = @ + 1]
           /\ artists' = artists
           /\ RowsOf(artists, Top.artist.name) = 0
           /\ stack # <<>>
           /\ stack' = SubSeq(stack, 1, Len(stack) - 1)
           /\ Len(stack') = Top.depth]_vars

\* a call has returned after both sources yielded nothing
C12_Witness ==
    \E f \in Frames : /\ f.pc = "ret" /\ ~f.hit /\ f.result = <<>>
                      /\ Len(f.tried) = 2 /\ f.ret = None
                      /\ report.unknown >= 1

\* the call of the frame found one row of its name, with force_fetch off, and
\* was not answered from the cache: the row was a stale record
FoundStale(f) == ~force_fetch /\ f.rows = 1 /\ ~f.hit /\ f.pc # "enter"

\* C13: a call that found a stale record leaves no duplicate rows: when the
\* delete fails the call ends at once with the table untouched, and when the
\* call returns the table holds at most one row of that name.
C13_StaleRefresh ==
    /\ [][(/\ Entering /\ ~force_fetch
            /\ Len(cs') = Len(cs)
            /\ cs'[Len(cs')].pc = "ret" /\ ~cs'[Len(cs')].hit)
           => artists' = artists]_vars
    /\ [](\A f \in Frames : (FoundStale(f) /\ f.pc = "ret")
              => RowsOf(artists, f.artist.name) <= 1)

\* C14: a page fetch that fails never ends the batch: no exception of the
\* HTTP step leaves genderise_batch, whose remaining artists are processed.
C14_FetchFailureContinues ==
    ~(status = "raised" /\ hist.exc = "RequestException")

\* C15: a genderise call that has ended, by a return or by an exception,
\* leaves the stack as long as it found it: the stack of a returning call
\* has the length it had at the first line, and when no call is running the
\* stack is empty.
C15_StackReleased ==
    /\ \A f \in Frames : f.pc = "ret" => Len(stack) = f.depth
    /\ cs = <<>> => stack = <<>>

\* C16: while genderise_batch runs with the offset O it read when it began,
\* the return of genderise for the artist at index i appends exactly one row,
\* of value O + i + 1, to the meta table before the artist at index i + 1 is
\* started, no other step of a call that returns appends a row, and the row
\* appended when the last of n artists has returned has the value O + n.
C16_CheckpointEveryArtist ==
    [][(status = "running" /\ bat.active /\ status' # "raised") =>
          IF Len(cs) = 1 /\ Top.pc = "ret" /\ cs' # cs
          THEN /\ Len(meta') = Len(meta) + 1
               /\ SubSeq(meta', 1, Len(meta)) = meta
               /\ meta'[Len(meta')].offset = bat.offset + bat.ix + 1
               /\ bat'.active =>
                     /\ bat'.offset = bat.offset
                     /\ bat'.ix = bat.ix + 1
                     /\ cs' = <<NewFrame(fetched[bat.ix + 2])>>
               /\ ~bat'.active =>
                     /\ bat.ix + 1 = Len(fetched)
                     /\ meta'[Len(meta')].offset = bat.offset + Len(fetched)
          ELSE meta' = meta]_vars

\* a batch of two artists has completed and the row appended last is two
\* past the offset the batch was fetched at
C16_Witness ==
    /\ status = "idle"
    /\ Len(fetched) = 2
    /\ Len(meta) >= 2
    /\ meta[Len(meta)].offset = hist.batchStart + 2
    /\ meta[Len(meta) - 1].offset = hist.batchStart + 1

\* C17: the meta table only grows by rows appended at its end, and
\* _get_offset returns the offset of the row appended last, also when
\* several rows carry the same timestamp, and 0 when the table is empty.
C17_MostRecentWins ==
    /\ [][\/ meta' = meta
          \/ /\ Len(meta') = Len(meta) + 1
             /\ SubSeq(meta', 1, Len(meta)) = meta]_vars
    /\ [](get_offset(meta) = IF meta = <<>> THEN {0}
                             ELSE {meta[Len(meta)].offset})

\* the call of the frame has classified the prose of a page
Classified(f) == f.corpus # <<>> /\ f.result # <<>>

\* the token lists the prose of the frame was written from
TextsOf(f) == {ts \in TokenLists : JoinWith(ts, " ") = f.corpus}

\* the positions of the pronoun tokens of a token list, and the label each
\* pronoun stands for
WrittenAt(ts) == {i \in 1..Len(ts) : ts[i] \in WrittenPronouns \cup {<<"h","e">>}}
WrittenLabel(t) ==
    CASE t \in { <<"S","h","e">>, <<"H","e","r">> } -> "female"
      [] t \in { <<"h","e",".">>, <<"h","e">>, <<"h","i","s">>, <<"h","i","m">> } -> "male"
      [] OTHER -> "nonbinary"

\* C18: the context of a text whose first pronoun is token p of n (counted
\* from 1) is the tokens max(1, p - 5) to min(n, p + 5), joined by spaces.
C18_ClampedWindow ==
    \A f \in Frames : Classified(f) =>
        \A ts \in TextsOf(f) : WrittenAt(ts) # {} =>
            LET p == Least(WrittenAt(ts))
                lo == IF p - 5 < 1 THEN 1 ELSE p - 5
                hi == IF p + 5 > Len(ts) THEN Len(ts) ELSE p + 5
            IN f.result[1].context = JoinWith(SubSeq(ts, lo, hi), " ")

\* C19: the label of a text is the label of its first pronoun token:
\* he/him/his male, she/her female, they/them/their nonbinary, whatever
\* pronouns follow.
C19_FirstPronounDecides ==
    \A f \in Frames : Classified(f) =>
        \A ts \in TextsOf(f) : WrittenAt(ts) # {} =>
            f.result[1].gender = WrittenLabel(ts[Least(WrittenAt(ts))])

\* a text with 'Her' first and 'he' later has been classified female
C19_Witness ==
    \E f \in Frames : Classified(f) /\ f.result[1].gender = "female" /\
        \E ts \in TextsOf(f) :
            /\ Cardinality(WrittenAt(ts)) = 2
            /\ ts[Least(WrittenAt(ts))] = <<"H","e","r">>
            /\ ts[Len(ts)] = <<"h","e">>

\* C20: a text with no pronoun token gets no label and no context.
C20_NoPronounNoLabel ==
    \A f \in Frames : Classified(f) =>
        \A ts \in TextsOf(f) : WrittenAt(ts) = {} =>
            f.result[1].gender = None /\ f.result[1].context = NoContext

\* a text with the near-pronoun 'the' and no pronoun has been classified
C20_Witness ==
    \E f \in Frames : Classified(f) /\ f.result[1].gender = None /\
        \E ts \in TextsOf(f) :
            WrittenAt(ts) = {} /\ \E i \in 1..Len(ts) : ts[i] = <<"t","h","e">>

\* the step runs a store write that fails
StoreFails ==
    /\ status = "running" /\ cs # <<>> /\ Top.pc \in {"try", "ret"}
    /\ faults' = faults + 1

\* C21: a store write that fails adds no row and changes none, and the call
\* goes on: the result is handed to add_to_report and its label is returned.
C21_WriteFailureNotFatal ==
    /\ [][StoreFails =>
            /\ artists' = artists
            /\ status' = "running"
            /\ cs' # <<>>
            /\ cs'[Len(cs')].result # <<>>
            /\ ~cs'[Len(cs')].stored]_vars
    /\ [](\A f \in Frames : (f.pc = "ret" /\ f.result # <<>> /\ ~f.stored) =>
              /\ f.ret = f.result[1].gender
              /\ f.artist.name \in hist.counted)

\* C22: when the delete of a cached record fails, genderise returns at once:
\* nothing is pushed, fetched, inserted, removed or reported.
C22_DeleteFailureReturns ==
    [][(Entering /\ faults' = faults + 1) =>
          /\ status' = "running"
          /\ Len(cs') = Len(cs)
          /\ cs'[Len(cs')].pc = "ret"
          /\ cs'[Len(cs')].ret = None
          /\ cs'[Len(cs')].fetches = 0
          /\ cs'[Len(cs')].tried = <<>>
          /\ stack' = stack
          /\ artists' = artists
          /\ report' = report
          /\ meta' = meta]_vars

\* the step is one source attempt of the call on top that yields no result
\* and leaves the call running
FailedProbe ==
    /\ status = "running" /\ cs # <<>> /\ Top.pc = "try"
    /\ status' = "running"
    /\ Len(cs') = Len(cs)
    /\ cs'[Len(cs')].pc = "try"
    /\ Len(cs'[Len(cs')].tried) = Len(Top.tried) + 1
    /\ cs'[Len(cs')].result = <<>>

\* C23: a source attempt that yields no result leaves the artist on top of
\* the stack, url fields included, as it was before the attempt.
C23_FailedProbeRollsBack ==
    [][FailedProbe => stack' = stack]_vars

\* wikipedia answers with a page that is no artist page and points to
\* "<name> (disambiguation)", behind which is a disambiguation page with one
\* 'band' link, behind which is an artist page; no fetch fails
PointerToBand(resp) ==
    /\ resp.failAt = 0
    /\ ~resp.direct.redirected /\ ~resp.direct.disamb /\ ~resp.direct.artist
    /\ resp.direct.pointer
    /\ resp.hop.disamb /\ resp.hop.bands = 1
    /\ resp.band.artist

\* C24: when the page at the artist url is no artist page but points to the
\* disambiguation page, and that page has exactly one candidate link leading
\* to an artist page, the locator returns that page: its prose is what gets
\* classified and its url is the wiki_url of the artist.
C24_PointerPathLocates ==
    [][\A resp \in LocateWikiResponses :
          (PointerToBand(resp) /\ TryWiki(resp) /\ status' = "running") =>
              /\ cs'[Len(cs')].corpus = resp.band.bio
              /\ stack'[Len(stack')].wiki_url = WikiLinkUrl("band")]_vars

\* the step leaves the call on top with nothing classified, stored or expanded
NothingLocated ==
    /\ Len(cs') = Len(cs)
    /\ cs'[Len(cs')].pc = "try"
    /\ cs'[Len(cs')].result = <<>>
    /\ cs'[Len(cs')].corpus = Top.corpus
    /\ artists' = artists

\* C25: a page is classified or expanded only if it shows a marker field:
\* an attempt on wikipedia where neither the page at the artist url nor the
\* page behind the 'band' link has one of the marker rows, and an attempt on
\* last.fm where the page has no factbox item at all, locate nothing.
C25_OnlyValidatedPages ==
    [][/\ \A resp \in LocateWikiResponses :
            (/\ ~resp.direct.artist /\ ~resp.band.artist
             /\ TryWiki(resp) /\ status' = "running") => NothingLocated
       /\ \A resp \in LocateLastfmResponses :
            (~resp.facts /\ TryLastfm(resp) /\ status' = "running")
                => NothingLocated]_vars

\* C26: when the page at the artist url is a disambiguation page, the
\* locator fetches at most one more page, and only when exactly one link
\* matches 'band'; it locates the linked page when that is an artist page,
\* and nothing (the artist restored) in every other case.
C26_SingleHop ==
    [][\A resp \in LocateWikiResponses :
          (/\ resp.direct.disamb /\ ~resp.direct.redirected
           /\ TryWiki(resp) /\ status' = "running") =>
             LET made == cs'[Len(cs')].fetches - Top.fetches
             IN /\ made = IF resp.direct.bands = 1 THEN 2 ELSE 1
                /\ IF resp.direct.bands = 1 /\ resp.band.artist
                   THEN /\ stack'[Len(stack')].wiki_url = WikiLinkUrl("band")
                        /\ cs'[Len(cs')].corpus = resp.band.bio
                   ELSE NothingLocated /\ stack' = stack]_vars

\* the one 'band' link of a disambiguation page has been followed to an
\* artist page, whose prose was classified
C26_Witness ==
    \E f \in Frames :
        /\ f.corpus = BioThey
        /\ f.result # <<>>
        /\ f.result[1].artist.wiki_url = WikiLinkUrl("band")

\* the prose consists of whitespace only (or of nothing)
OnlyWhitespace(bio) == \A i \in 1..Len(bio) : bio[i] \in {" ", "\n", "\t"}

\* the step leaves the call on top with one source less to try, nothing
\* stored and nothing reported
FallsThrough ==
    /\ status' = "running"
    /\ NothingLocated
    /\ report' = report
    /\ Len(cs'[Len(cs')].sources) = Len(Top.sources) - 1

\* C27: a located page that is no group page and whose prose is empty or
\* whitespace only yields nothing for its source: nothing is stored or
\* reported and the call goes on with the sources that remain; a call ends
\* unresolved only when every source has been tried.
C27_EmptyProseFallsThrough ==
    /\ [][/\ \A resp \in LocateLastfmResponses :
              (/\ ~resp.notfound /\ ~resp.raises /\ ~resp.group
               /\ OnlyWhitespace(resp.bio) /\ TryLastfm(resp)) => FallsThrough
          /\ \A resp \in LocateWikiResponses :
              (/\ resp.failAt = 0 /\ ~resp.direct.redirected /\ ~resp.direct.disamb
               /\ resp.direct.artist /\ ~resp.direct.group
               /\ OnlyWhitespace(resp.direct.bio) /\ TryWiki(resp)) => FallsThrough]_vars
    /\ [](\A f \in Frames :
              (f.pc = "ret" /\ f.result = <<>> /\ f.tried # <<>>) => Len(f.tried) = 2)

\* the last.fm page was located and its prose was blank, and the call went
\* on to wikipedia, which yielded the result
C27_Witness ==
    \E f \in Frames :
        /\ Len(f.tried) = 2
        /\ f.result # <<>>
        /\ f.corpus = BioHe
        /\ f.result[1].artist.lastfm_url # NoUrl

\* a row of the artists table has the shape of a group record or of a
\* person record
GroupShape(r) == r.is_group /\ r.gender = None
PersonShape(r) ==
    /\ ~r.is_group
    /\ r.lead_gender = None
    /\ r.nonbinary_count = 0 /\ r.female_count = 0
    /\ r.male_count = 0 /\ r.unknown_count = 0
    /\ r.member_names = <<>>

\* C28: every row of the artists table is a group record (is_group, no
\* gender) or a person record (not is_group, no lead, all counts zero, no
\* member names); the group record of an expanded group carries the lead and
\* the member names of the expansion.
C28_RecordShape ==
    /\ \A i \in 1..Len(artists) : GroupShape(artists[i]) \/ PersonShape(artists[i])
    /\ \A f \in Frames : f.result # <<>> =>
          LET r == TableRow(f.result[1].artist, f.result[1].context,
                            f.result[1].gender, f.result[1].is_group,
                            f.result[1].lead, f.result[1].members)
          IN /\ GroupShape(r) \/ PersonShape(r)
             /\ Expanded(f) => /\ r.lead_gender = f.lead
                               /\ r.member_names = f.listed

\* the table holds the record of a person with a label and the record of a
\* group with a lead and a member
C28_Witness ==
    /\ \E i \in 1..Len(artists) : ~artists[i].is_group /\ artists[i].gender # None
    /\ \E i \in 1..Len(artists) :
          /\ artists[i].is_group
          /\ artists[i].lead_gender # None
          /\ artists[i].member_names # <<>>
    /\ \E f \in Frames : Expanded(f) /\ f.stored /\ f.lead # None

\* C29: with force_fetch off no step removes a row that has a known gender
\* or is a group record.
C29_GoodRecordsKept ==
    [][~force_fetch =>
          \A i \in 1..Len(artists) :
              (artists[i].gender # None \/ artists[i].is_group) =>
                  \E j \in 1..Len(artists') : artists'[j] = artists[i]]_vars

\* An upper bound of the steps the running calls still take.  A call at
\* its first line checks the cache and then tries two sources; one attempt
\* of the call at the bottom may expand a member list, where every member
\* costs the steps of its own call (its first line, one attempt for each
\* source, its last line) and its return.
MemberCost == 3 + Len(InitialSources)
AttemptCost(i) == IF i = 1 THEN 1 + MaxMembers * MemberCost ELSE 1
FrameRank(i) ==
    LET f == cs[i]
    IN CASE f.pc = "enter" -> 2 + Len(InitialSources) * AttemptCost(i)
         [] f.pc = "try" /\ f.result = <<>> -> 1 + Len(f.sources) * AttemptCost(i)
         [] f.pc = "try" /\ f.result # <<>> -> 1
         [] f.pc = "members" -> 2 + MemberCost * (Len(f.todo) - 1)
         [] OTHER -> 0
RECURSIVE RankFrom(_)
RankFrom(i) == IF i > Len(cs) THEN 0 ELSE FrameRank(i) + RankFrom(i + 1)
Rank == RankFrom(1)

\* the call started on the idle object is at its return, or has raised
Ended == status # "running" \/ (Len(cs) = 1 /\ cs[1].pc = "ret")

\* C30: every genderise call terminates, whatever the member lists refer
\* to: every step of a running call lowers the bound of the steps that
\* remain, a call tries no source twice, at most two calls are nested, and
\* a running call comes to its end.
C30_Terminates ==
    /\ [][(status = "running" /\ status' = "running") => Rank' < Rank]_vars
    /\ [](\A f \in Frames :
              /\ Len(f.tried) <= Len(InitialSources)
              /\ \A i, j \in 1..Len(f.tried) : f.tried[i] = f.tried[j] => i = j)
    /\ [](Len(cs) <= 2)
    /\ ((status = "running") ~> Ended)

\* the call for a group page that lists the group itself as a member has
\* returned
C30_Witness ==
    /\ status = "running"
    /\ Len(cs) = 1
    /\ cs[1].pc = "ret"
    /\ cs[1].artist.name = "G"
    /\ \E i \in 1..Len(artists) :
          /\ artists[i].is_group
          /\ artists[i].name = "G"
          /\ artists[i].member_names = <<"G">>

\* C31: when the genderise call for the artist at index i of a batch ends
\* with an exception, an interrupt or any other, the row genderise_batch
\* appends to the meta table has the value (offset the batch runs with) + i,
\* so that the checkpoint never passes an artist whose call did not return.
C31_CheckpointHoldsBack ==
    [][(status = "running" /\ bat.active /\ status' = "raised") =>
          /\ Len(meta') = Len(meta) + 1
          /\ meta'[Len(meta')].offset = bat.offset + bat.ix]_vars

\* C32: with force_fetch on, a call that found a record of its name with a
\* known gender, or a group record, returns with a record of that name in
\* the table, also when no source yielded a result.
C32_RefreshKeepsRecord ==
    \A f \in Frames :
        (force_fetch /\ f.known /\ f.pc = "ret") =>
            RowsOf(artists, f.artist.name) >= 1

\* C33: the batch mode of the script makes progress: its loop begins by
\* fetching a page of the catalog, the page at the offset given on the
\* command line or, when none is given, the page at the checkpoint the run
\* before it left, so that the iterations that follow can start from the
\* checkpoints of the ones before them.
C33_ForeverProgress ==
    [][\A given \in -1..MaxOffset, forever \in BOOLEAN :
          BatchMode(given, forever) =>
              /\ status' = "fetched"
              /\ \E offset \in (IF given = -1 THEN get_offset(meta) ELSE {given}) :
                    fetched' = CatalogPage(offset)]_vars

\* C34: the batch built from a playlist holds no two entries with the same
\* name, also when the name is credited with different catalog ids.
C34_PlaylistUniqueNames ==
    \A i, j \in 1..Len(fetched) : fetched[i].name = fetched[j].name => i = j

\* C35: a pronoun token is recognised whatever whitespace character
\* separates it from its neighbours: a text of tokens joined by spaces,
\* newlines or tabs gets the label of its pronoun.
C35_AnyWhitespaceSplits ==
    \A f \in Frames : Classified(f) =>
        \A ts \in BrokenTexts, sep \in Whitespace :
            JoinWith(ts, sep) = f.corpus =>
                f.result[1].gender = WrittenLabel(ts[Least(WrittenAt(ts))])

====
